---- MODULE Spec2Model ----
EXTENDS Integers, Sequences, FiniteSets, TLC

(***************************************************************************)
(* Model of package logging (src/logging.go): one Logger, a set of sink    *)
(* Handlers (WriterHandler, SyslogHandler) and one MultiHandler fanning    *)
(* out to children on goroutines joined by a sync.WaitGroup.  One caller   *)
(* thread drives the Logger; the goroutines of MultiHandler.Handle/Close   *)
(* interleave freely.                                                      *)
(*                                                                         *)
(* Spec        calls and reconfigurations of the Logger and its handlers   *)
(* SpecFormat  one Logger and a sink, over all templates and arguments     *)
(* SpecClock   logging calls with the wall clock advancing                 *)
(* SpecLive    calls whose sinks may stall, under scheduler fairness       *)
(* SpecDefault package initialization and the package's free functions     *)
(***************************************************************************)

\* ---------------------------------------------------------------- bounds
\* sink handlers that exist; a MultiHandler has at most that many children
NumSinks == 2
\* operations (reconfigurations and logging calls) the application makes
MaxOps == 2
\* ticks of the wall clock
MaxTime == 2
\* calls of the Logger in the runs that look at one call closely
MaxCalls == 1
\* tokens of such a template
MaxTemplateLen == 2
\* threads of the application that call the package's free functions
NumThreads == 2
MaxChildren == NumSinks

\* ---------------------------------------------------------------- levels
CRITICAL == 0
ERROR == 1
WARNING == 2
NOTICE == 3
INFO == 4
DEBUG == 5

Levels == CRITICAL..DEBUG

LevelNames == [l \in Levels |->
    CASE l = CRITICAL -> "CRITICAL"
      [] l = ERROR    -> "ERROR"
      [] l = WARNING  -> "WARNING"
      [] l = NOTICE   -> "NOTICE"
      [] l = INFO     -> "INFO"
      [] OTHER        -> "DEBUG"]

MAGENTA == 35
RED == 31
YELLOW == 33
GREEN == 32
WHITE == 37
CYAN == 36

LevelColors == [l \in Levels |->
    CASE l = CRITICAL -> MAGENTA
      [] l = ERROR    -> RED
      [] l = WARNING  -> YELLOW
      [] l = NOTICE   -> GREEN
      [] l = INFO     -> WHITE
      [] OTHER        -> CYAN]

DefaultLevel == INFO

\* ---------------------------------------------------------------- objects
\* Handler references: 0 is the MultiHandler, 1..NumSinks are sink handlers.
Multi == 0
Sinks == 1..NumSinks
HandlerRefs == {Multi} \cup Sinks
\* Even sinks are SyslogHandlers, odd sinks WriterHandlers; sink 1 is colorized,
\* as StderrHandler (the DefaultHandler) is after init().
IsSyslog(s) == s % 2 = 0
Colorize(s) == s = 1
DefaultHandler == 1

Formatters == {"default", "custom"}
DefaultFormatter == "default"

\* goroutine slots of one fan-out; unit 0 is the caller's own thread
Units == 0..MaxChildren

\* NewMultiHandler(handlers...): the first k sinks, for any k
ChildLists == {[i \in 1..k |-> i] : k \in 0..MaxChildren}

\* ---------------------------------------------------------------- inputs
Templates == {<<"%d">>}
ArgLists == {<<"7">>}
LoggerName == "svc"

\* templates as sequences of tokens: text, the verb %d, a lone % and a newline
Tokens == {"m", "%d", "%", "\n"}
FormatTemplates == UNION {[1..n -> Tokens] : n \in 0..MaxTemplateLen}
FormatArgLists == {<<>>, <<"7">>, <<"7", "8">>}
\* one method the default threshold lets through and one it does not
FormatMethods == {"Info", "Debug"}
Methods == {"Critical", "Error", "Warning", "Notice", "Info", "Debug"}
\* the free functions of the package
FreeFunctions == {"Fatal", "Panic"} \cup Methods
Threads == 1..NumThreads

MethodLevel(m) ==
    CASE m = "Critical" -> CRITICAL
      [] m = "Error"    -> ERROR
      [] m = "Warning"  -> WARNING
      [] m = "Notice"   -> NOTICE
      [] m = "Info"     -> INFO
      [] m = "Debug"    -> DEBUG
      [] OTHER          -> CRITICAL   \* Fatal and Panic call l.Critical

VARIABLES
    lLevel,     \* logger.Level
    lHandler,   \* logger.Handler
    hLevel,     \* BaseHandler.Level of every sink
    hFormatter, \* BaseHandler.Formatter of every sink
    handlers,   \* MultiHandler.handlers
    now,        \* the wall clock read by time.Now()
    rec,        \* the Record of the call in progress
    pc,         \* where the caller's thread is
    job,        \* the Handler method the caller is in: "handle" or "close"
    unit,       \* the executions of sink methods (slot 0: caller's thread)
    spawned,    \* loop index of the go statements of a fan-out
    wg,         \* the sync.WaitGroup counter of a fan-out
    writes,     \* what every sink's stream / transport has been sent
    closes,     \* transport Close calls per sink
    proc,       \* the process: running, exited, panicked, crashed
    cur,        \* the logging call in progress or last made (history)
    opEv,       \* events of that call (history)
    delivered,  \* the Records handed to logger.Handler.Handle, in order (history)
    ncalls,     \* calls made so far
    nsets,      \* reconfigurations made so far
    lastSet,    \* the last reconfiguration (history)
    pkg,        \* the package: how far its initialization is, the NewLogger calls
                \* made for DefaultLogger, and DefaultLogger itself (0: nil)
    free,       \* the call of a free function every thread is in
    installed   \* the Handler the Logger was last given: by NewLogger, then by
                \* SetHandler (history)

vars == <<lLevel, lHandler, hLevel, hFormatter, handlers, now, rec, pc, job,
          unit, spawned, wg, writes, closes, proc, cur, opEv, delivered,
          ncalls, nsets, lastSet, pkg, free, installed>>

pkgVars == <<pkg, free>>
cfgVars == <<lLevel, lHandler, hLevel, hFormatter, handlers, pkgVars>>
fanVars == <<unit, spawned, wg>>
histVars == <<cur, opEv, delivered, ncalls>>
setVars == <<nsets, lastSet, installed>>

\* ---------------------------------------------------------------- formatting
HasSuffixNL(f) == Len(f) > 0 /\ f[Len(f)] = "\n"

\* faulty variant: the newline is appended without looking at the template
AddNewline_Always(f) == Append(f, "\n")

\* logger.log: add missing newline at the end
AddNewline(f) == IF HasSuffixNL(f) THEN f ELSE Append(f, "\n")

\* fmt.Sprintf on a template of tokens: %d consumes the next argument, a missing
\* argument and left-over arguments leave Go's error markers.  A lone % takes
\* the token after it as its verb: %% is a percent sign, no token is %!(NOVERB),
\* and any other token is a bad verb, which consumes an argument as a verb does.
RECURSIVE Sprintf(_, _)
Sprintf(f, a) ==
    IF f = <<>> THEN (IF a = <<>> THEN <<>> ELSE <<"%!(EXTRA)">>)
    ELSE IF Head(f) = "%d"
         THEN IF a = <<>> THEN <<"%!d(MISSING)">> \o Sprintf(Tail(f), a)
              ELSE <<Head(a)>> \o Sprintf(Tail(f), Tail(a))
    ELSE IF Head(f) = "%"
         THEN IF Tail(f) = <<>> THEN <<"%!(NOVERB)">> \o Sprintf(<<>>, a)
              ELSE IF f[2] = "%" THEN <<"%">> \o Sprintf(Tail(Tail(f)), a)
              ELSE IF f[2] = "%d" THEN <<"%", "d">> \o Sprintf(Tail(Tail(f)), a)
              ELSE IF a = <<>>
                   THEN <<"%!", f[2], "(MISSING)">> \o Sprintf(Tail(Tail(f)), a)
                   ELSE <<"%!", f[2], "(BADVERB)">> \o Sprintf(Tail(Tail(f)), Tail(a))
    ELSE <<Head(f)>> \o Sprintf(Tail(f), a)

TicksPerSecond == 2
SecondNames == <<"18:15:57", "18:15:58", "18:15:59", "18:16:00", "18:16:01">>
\* fmt.Sprint(rec.Time)[:19]: the time cut to the second
TimeStr(t) == SecondNames[(t \div TicksPerSecond) + 1]

\* faulty variant: the formatter reads the wall clock when it formats
FormatTime_Now(r) == now

\* the time defaultFormatter.Format prints: rec.Time
FormatTime(r) == r.Time

\* defaultFormatter.Format
DefaultFormat(r) ==
    <<TimeStr(FormatTime(r)), r.LoggerName, LevelNames[r.Level]>> \o Sprintf(r.Format, r.Args)

\* a user Formatter: the message alone
CustomFormat(r) == Sprintf(r.Format, r.Args)

Format(F, r) == IF F = "default" THEN DefaultFormat(r) ELSE CustomFormat(r)

NoRec == [id |-> 0, Format |-> <<>>, Args |-> <<>>, LoggerName |-> "",
          Level |-> CRITICAL, Time |-> 0]

\* the Record literal of logger.log
NewRecord(id, level, f, a, t) ==
    [id |-> id, Format |-> AddNewline(f), Args |-> a, LoggerName |-> LoggerName,
     Level |-> level, Time |-> t]

\* ---------------------------------------------------------------- decisions
\* faulty variant: the guard written with > for >=
LoggerGate_Strict(threshold, level) == threshold > level

\* the guard of logger.Critical .. logger.Debug: l.Level >= <method's level>
LoggerGate(threshold, level) == threshold >= level

\* faulty variant: the guard written with > for >=
HandlerGate_Strict(threshold, level) == threshold > level

\* the guard of BaseHandler.FilterAndFormat: h.Level >= rec.Level
HandlerGate(threshold, level) == threshold >= level

\* BaseHandler.FilterAndFormat
FilterAndFormat(hl, hf, r) == IF HandlerGate(hl, r.Level) THEN Format(hf, r) ELSE <<>>

SyslogFn(level) ==
    CASE level = CRITICAL -> "Crit"
      [] level = ERROR    -> "Err"
      [] level = WARNING  -> "Warning"
      [] level = NOTICE   -> "Notice"
      [] level = INFO     -> "Info"
      [] OTHER            -> "Debug"

Entry(r, part, text, color) == [id |-> r.id, part |-> part, text |-> text, color |-> color]

\* the write calls of WriterHandler.Handle for a non-empty message
WriterParts(s, r, message) ==
    (IF Colorize(s) THEN <<Entry(r, "color", <<>>, LevelColors[r.Level])>> ELSE <<>>)
    \o <<Entry(r, "msg", message, 0)>>
    \o (IF Colorize(s) THEN <<Entry(r, "reset", <<>>, 0)>> ELSE <<>>)

\* the send call of SyslogHandler.Handle for a non-empty message
SyslogParts(s, r, message) == <<Entry(r, SyslogFn(r.Level), message, 0)>>

\* WriterHandler.Handle / SyslogHandler.Handle up to the first output call
SinkParts(s, hl, hf, r) ==
    LET message == FilterAndFormat(hl, hf, r)
    IN IF message = <<>> THEN <<>>
       ELSE IF IsSyslog(s) THEN SyslogParts(s, r, message)
       ELSE WriterParts(s, r, message)

\* faulty variant: wg.Add is left out and the counter starts at zero
WgAdd_None(hs) == 0

\* faulty variant: the WaitGroup counts one child only, a race to first completion
WgAdd_First(hs) == IF hs = <<>> THEN 0 ELSE 1

\* wg.Add(len(b.handlers))
WgAdd(hs) == Len(hs)

\* faulty variant: wg.Wait is left out and the method returns after the loop
WgWaitReturns_NoWait(counter) == TRUE

\* faulty variant: Wait returns while one child is still outstanding
WgWaitReturns_Early(counter) == counter <= 1

\* wg.Wait() returns when the counter is zero
WgWaitReturns(counter) == counter = 0

\* faulty variant: the loop stops after the first child
Cascade_First(hs, field, value) ==
    IF hs = <<>> THEN field ELSE [field EXCEPT ![Head(hs)] = value]

\* the range loop of MultiHandler.SetLevel / SetFormatter over b.handlers
RECURSIVE Cascade(_, _, _)
Cascade(hs, field, value) ==
    IF hs = <<>> THEN field
    ELSE Cascade(Tail(hs), [field EXCEPT ![Head(hs)] = value], value)

IdleUnit == [st |-> "none", n |-> 0, pending |-> <<>>]
NoCall == [op |-> "none", level |-> CRITICAL, f |-> <<>>, a |-> <<>>,
           thr |-> DefaultLevel, h |-> DefaultHandler, t |-> 0,
           hl |-> [s \in Sinks |-> DefaultLevel],
           w0 |-> [s \in Sinks |-> 0], c0 |-> [s \in Sinks |-> 0]]
NoSet == [on |-> "none", sink |-> Multi, field |-> "none", level |-> CRITICAL,
          formatter |-> "", overwrote |-> FALSE]
NoEv == [built |-> 0, hcall |-> 0, hret |-> 0, ccall |-> 0, cret |-> 0]

\* faulty variant: the Logger keeps calling the package's DefaultHandler
LoggerHandler_Default == DefaultHandler

\* l.Handler as logger.log and logger.Close read it at every call
LoggerHandler == lHandler

\* faulty variant: the goroutines share the loop variable and all see the last child
SinkOf_LoopVar(t) == IF t = 0 THEN LoggerHandler ELSE handlers[Len(handlers)]

\* the handler an execution runs: the Logger's own, or the argument of the t-th
\* go func(handler Handler)
SinkOf(t) == IF t = 0 THEN LoggerHandler ELSE handlers[t]

Running == proc.state = "running"

\* ---------------------------------------------------------------- Init
\* NewLogger, NewBaseHandler, NewWriterHandler, NewSyslogHandler, NewMultiHandler.
\* NewLogger takes the package variable DefaultHandler as it is when called, so
\* the application's wiring decides which handler a new Logger starts with.
IdleThread == [st |-> "idle", fn |-> "", target |-> 0, n |-> 0]

\* the program when main starts: the package's variables are initialized, init()
\* has run
PackageReady == [phase |-> "main", built |-> 1, DefaultLogger |-> 1]

InitLogger ==
    /\ lLevel = DefaultLevel
    /\ hLevel = [s \in Sinks |-> DefaultLevel]
    /\ hFormatter = [s \in Sinks |-> DefaultFormatter]
    /\ handlers \in ChildLists
    /\ now = 0
    /\ rec = NoRec
    /\ pc = "idle"
    /\ job = "none"
    /\ unit = [t \in Units |-> IdleUnit]
    /\ spawned = 0
    /\ wg = 0
    /\ writes = [s \in Sinks |-> <<>>]
    /\ closes = [s \in Sinks |-> 0]
    /\ proc = [state |-> "running", code |-> 0, by |-> "", msg |-> <<>>]
    /\ cur = NoCall
    /\ opEv = NoEv
    /\ delivered = <<>>
    /\ ncalls = 0
    /\ nsets = 0
    /\ lastSet = NoSet
    /\ free = [th \in Threads |-> IdleThread]

Init ==
    /\ InitLogger
    /\ lHandler \in HandlerRefs
    /\ installed = lHandler
    /\ pkg = PackageReady

\* ---------------------------------------------------------------- clock
Tick ==
    /\ Running
    /\ now < MaxTime
    /\ now' = now + 1
    /\ UNCHANGED <<cfgVars, rec, pc, job, fanVars, writes, closes, proc, histVars, setVars>>

\* ---------------------------------------------------------------- reconfiguration
CanSet == Running /\ pc = "idle" /\ ncalls + nsets < MaxOps

SetFrame == UNCHANGED <<handlers, now, rec, pc, job, fanVars, writes, closes,
                        proc, histVars, pkgVars>>

logger_SetLevel(level) ==
    /\ CanSet
    /\ lLevel' = level
    /\ nsets' = nsets + 1
    /\ lastSet' = [NoSet EXCEPT !.on = "logger", !.field = "level", !.level = level]
    /\ UNCHANGED <<lHandler, hLevel, hFormatter, installed>>
    /\ SetFrame

logger_SetHandler(b) ==
    /\ CanSet
    /\ lHandler' = b
    /\ nsets' = nsets + 1
    /\ lastSet' = [NoSet EXCEPT !.on = "logger", !.field = "handler", !.sink = b,
                                !.overwrote = (lHandler # b)]
    /\ installed' = b
    /\ UNCHANGED <<lLevel, hLevel, hFormatter>>
    /\ SetFrame

BaseHandler_SetLevel(s, l) ==
    /\ CanSet
    /\ hLevel' = [hLevel EXCEPT ![s] = l]
    /\ nsets' = nsets + 1
    /\ lastSet' = [NoSet EXCEPT !.on = "base", !.sink = s, !.field = "level", !.level = l]
    /\ UNCHANGED <<lLevel, lHandler, hFormatter, installed>>
    /\ SetFrame

BaseHandler_SetFormatter(s, f) ==
    /\ CanSet
    /\ hFormatter' = [hFormatter EXCEPT ![s] = f]
    /\ nsets' = nsets + 1
    /\ lastSet' = [NoSet EXCEPT !.on = "base", !.sink = s, !.field = "formatter",
                                !.formatter = f]
    /\ UNCHANGED <<lLevel, lHandler, hLevel, installed>>
    /\ SetFrame

MultiHandler_SetLevel(l) ==
    /\ CanSet
    /\ hLevel' = Cascade(handlers, hLevel, l)
    /\ nsets' = nsets + 1
    /\ lastSet' = [NoSet EXCEPT !.on = "multi", !.field = "level", !.level = l,
                                !.overwrote = \E i \in 1..Len(handlers) : hLevel[handlers[i]] # l]
    /\ UNCHANGED <<lLevel, lHandler, hFormatter, installed>>
    /\ SetFrame

MultiHandler_SetFormatter(f) ==
    /\ CanSet
    /\ hFormatter' = Cascade(handlers, hFormatter, f)
    /\ nsets' = nsets + 1
    /\ lastSet' = [NoSet EXCEPT !.on = "multi", !.field = "formatter", !.formatter = f,
                                !.overwrote = \E i \in 1..Len(handlers) : hFormatter[handlers[i]] # f]
    /\ UNCHANGED <<lLevel, lHandler, hLevel, installed>>
    /\ SetFrame

\* ---------------------------------------------------------------- logger calls
CanCall == Running /\ pc = "idle" /\ ncalls + nsets < MaxOps

\* history: the call and the configuration it was made under
Snapshot(op, level, f, a) ==
    [op |-> op, level |-> level, f |-> f, a |-> a, thr |-> lLevel, h |-> lHandler,
     t |-> now,
     hl |-> hLevel, w0 |-> [s \in Sinks |-> Len(writes[s])], c0 |-> closes]

\* logger.Critical .. logger.Debug followed by logger.log up to l.Handler.Handle(rec);
\* for Fatal and Panic the l.Critical they start with
StartLog(op, f, a) ==
    LET level == MethodLevel(op)
    IN /\ CanCall
       /\ cur' = Snapshot(op, level, f, a)
       /\ ncalls' = ncalls + 1
       /\ IF LoggerGate(lLevel, level)
          THEN /\ rec' = NewRecord(ncalls + 1, level, f, a, now)
               /\ opEv' = [NoEv EXCEPT !.built = 1]
               /\ pc' = "call"
               /\ job' = "handle"
          ELSE /\ rec' = NoRec
               /\ opEv' = NoEv
               /\ pc' = IF op \in Methods THEN "idle" ELSE "ret"
               /\ job' = IF op \in Methods THEN "none" ELSE "handle"
       /\ UNCHANGED <<cfgVars, now, fanVars, writes, closes, proc, delivered, setVars>>

logger_Method(m, f, a) == m \in Methods /\ StartLog(m, f, a)

logger_Fatal(f, a) == StartLog("Fatal", f, a)

logger_Panic(f, a) == StartLog("Panic", f, a)

\* logger.Close called by the application
logger_Close ==
    /\ CanCall
    /\ cur' = Snapshot("Close", CRITICAL, <<>>, <<>>)
    /\ ncalls' = ncalls + 1
    /\ opEv' = NoEv
    /\ rec' = NoRec
    /\ pc' = "call"
    /\ job' = "close"
    /\ UNCHANGED <<cfgVars, now, fanVars, writes, closes, proc, delivered, setVars>>

\* history: l.Handler.Handle(rec) is called / has returned
Handed(d, j, r) == IF j = "handle" THEN Append(d, [id |-> r.id, done |-> FALSE]) ELSE d
Returned(d, j) == IF j = "handle" THEN [d EXCEPT ![Len(d)].done = TRUE] ELSE d

CountCall(ev, j) ==
    IF j = "handle" THEN [ev EXCEPT !.hcall = @ + 1] ELSE [ev EXCEPT !.ccall = @ + 1]

CountRet(ev, j) ==
    IF j = "handle" THEN [ev EXCEPT !.hret = @ + 1] ELSE [ev EXCEPT !.cret = @ + 1]

\* faulty variant: the handler's method is started in the background and the caller goes on
CallPc_Async(h) == "ret"

\* l.Handler.Handle(rec) and l.Handler.Close() are plain calls: the caller's
\* thread is inside the handler's method until it returns
CallPc(h) == IF h = Multi THEN "fanout" ELSE "single"

\* l.Handler.Handle(rec) / l.Handler.Close() on a sink handler: the caller's
\* thread enters the sink's method
Sink_Invoke ==
    /\ Running
    /\ pc = "call"
    /\ LoggerHandler \in Sinks
    /\ pc' = CallPc(LoggerHandler)
    /\ unit' = [t \in Units |-> IF t = 0 THEN [IdleUnit EXCEPT !.st = "ready"] ELSE IdleUnit]
    /\ opEv' = CountCall(opEv, job)
    /\ delivered' = Handed(delivered, job, rec)
    /\ UNCHANGED <<cfgVars, now, rec, job, spawned, wg, writes, closes, proc, cur,
                   ncalls, setVars>>

\* MultiHandler.Handle / MultiHandler.Close: wg := WaitGroup{}; wg.Add(len(b.handlers))
MultiHandler_Enter ==
    /\ Running
    /\ pc = "call"
    /\ LoggerHandler = Multi
    /\ pc' = CallPc(LoggerHandler)
    /\ unit' = [t \in Units |-> IdleUnit]
    /\ spawned' = 0
    /\ wg' = WgAdd(handlers)
    /\ opEv' = CountCall(opEv, job)
    /\ delivered' = Handed(delivered, job, rec)
    /\ UNCHANGED <<cfgVars, now, rec, job, writes, closes, proc, cur, ncalls, setVars>>

\* the number of go statements the range loop executes
SpawnCount(hs) == Len(hs)

\* one iteration of the range loop: go func(handler Handler) {...}(handler)
MultiHandler_Go ==
    /\ Running
    /\ pc = "fanout"
    /\ spawned < SpawnCount(handlers)
    /\ spawned' = spawned + 1
    /\ unit' = [unit EXCEPT ![spawned + 1] = [IdleUnit EXCEPT !.st = "ready"]]
    /\ UNCHANGED <<cfgVars, now, rec, pc, job, wg, writes, closes, proc, histVars, setVars>>

\* faulty variant: the threshold is latched at construction and SetLevel is not seen
HandlerLevel_Stale(s) == DefaultLevel

\* h.Level and h.Formatter as FilterAndFormat reads them: the fields' current values
HandlerLevel(s) == hLevel[s]
HandlerFormatter(s) == hFormatter[s]

\* handler.Handle(rec) starts in execution t: FilterAndFormat, and the output
\* calls it leads to
Sink_Handle(t) ==
    /\ Running
    /\ job = "handle"
    /\ unit[t].st = "ready"
    /\ LET s == SinkOf(t)
       IN unit' = [unit EXCEPT ![t] = [st |-> "run", n |-> @.n + 1,
                       pending |-> SinkParts(s, HandlerLevel(s), HandlerFormatter(s), rec)]]
    /\ UNCHANGED <<cfgVars, now, rec, pc, job, spawned, wg, writes, closes, proc,
                   histVars, setVars>>

\* handler.Close() in execution t: WriterHandler.Close does nothing,
\* SyslogHandler.Close closes the transport
Sink_Close(t) ==
    /\ Running
    /\ job = "close"
    /\ unit[t].st = "ready"
    /\ unit' = [unit EXCEPT ![t] = [st |-> "run", n |-> @.n + 1, pending |-> <<>>]]
    /\ closes' = IF IsSyslog(SinkOf(t)) THEN [closes EXCEPT ![SinkOf(t)] = @ + 1] ELSE closes
    /\ UNCHANGED <<cfgVars, now, rec, pc, job, spawned, wg, writes, proc, histVars, setVars>>

\* b.w.Write / fmt.Fprint(b.w, message) / fn(message): one output call
Sink_Write(t) ==
    /\ Running
    /\ unit[t].st = "run"
    /\ unit[t].pending # <<>>
    /\ writes' = [writes EXCEPT ![SinkOf(t)] = Append(@, Head(unit[t].pending))]
    /\ unit' = [unit EXCEPT ![t].pending = Tail(@)]
    /\ UNCHANGED <<cfgVars, now, rec, pc, job, spawned, wg, closes, proc, histVars, setVars>>

\* the io.Writer is the application's: its Write may panic (a nil io.Writer
\* always does).  Nothing in the package recovers, so on a goroutine the runtime
\* ends the process (status 2), and on the caller's thread the panic unwinds into
\* the caller
Sink_WritePanic(t) ==
    /\ Running
    /\ unit[t].st = "run"
    /\ unit[t].pending # <<>>
    /\ ~IsSyslog(SinkOf(t))
    /\ unit' = [unit EXCEPT ![t].st = "panicked"]
    /\ proc' = [state |-> IF t = 0 THEN "panicked" ELSE "crashed",
                code |-> IF t = 0 THEN 0 ELSE 2,
                by |-> "Write", msg |-> <<"Write">>]
    /\ UNCHANGED <<cfgVars, now, rec, pc, job, spawned, wg, writes, closes, histVars, setVars>>

\* faulty variant: the goroutine ends without wg.Done()
WgDone_Missing(counter) == counter

\* wg.Done()
WgDone(counter) == counter - 1

\* the sink's method returns; on a goroutine wg.Done() follows
Sink_Return(t) ==
    /\ Running
    /\ unit[t].st = "run"
    /\ unit[t].pending = <<>>
    /\ unit' = [unit EXCEPT ![t].st = "done"]
    /\ IF t = 0
       THEN /\ pc' = "ret"
            /\ opEv' = CountRet(opEv, job)
            /\ delivered' = Returned(delivered, job)
            /\ wg' = wg
       ELSE /\ wg' = WgDone(wg)
            /\ UNCHANGED <<pc, opEv, delivered>>
    /\ UNCHANGED <<cfgVars, now, rec, job, spawned, writes, closes, proc, cur,
                   ncalls, setVars>>

\* wg.Wait() returns and with it MultiHandler.Handle / Close
MultiHandler_Wait ==
    /\ Running
    /\ pc = "fanout"
    /\ spawned = SpawnCount(handlers)
    /\ WgWaitReturns(wg)
    /\ pc' = "ret"
    /\ opEv' = CountRet(opEv, job)
    /\ delivered' = Returned(delivered, job)
    /\ UNCHANGED <<cfgVars, now, rec, job, fanVars, writes, closes, proc, cur,
                   ncalls, setVars>>

\* faulty variant: Fatal and Panic stop after l.Critical
AfterCritical_Return(op) == "return"

\* what the caller does after l.Critical(...) in Fatal and Panic
AfterCritical(op) == IF op \in {"Fatal", "Panic"} THEN "close" ELSE "return"

\* what the caller does after l.Close() in Fatal and Panic
AfterClose(op) ==
    CASE op = "Fatal" -> "exit"
      [] op = "Panic" -> "panic"
      [] OTHER        -> "return"

\* logger.log returns, and the severity method with it
logger_Return ==
    /\ Running
    /\ pc = "ret"
    /\ \/ job = "handle" /\ AfterCritical(cur.op) = "return"
       \/ job = "close" /\ AfterClose(cur.op) = "return"
    /\ pc' = "idle"
    /\ job' = "none"
    /\ rec' = NoRec
    /\ unit' = [t \in Units |-> IdleUnit]
    /\ spawned' = 0
    /\ UNCHANGED <<cfgVars, now, wg, writes, closes, proc, histVars, setVars>>

\* l.Close() in logger.Fatal and logger.Panic
logger_CloseAfterCritical ==
    /\ Running
    /\ pc = "ret"
    /\ job = "handle"
    /\ AfterCritical(cur.op) = "close"
    /\ pc' = "call"
    /\ job' = "close"
    /\ UNCHANGED <<cfgVars, now, rec, fanVars, writes, closes, proc, histVars, setVars>>

\* os.Exit(1) in logger.Fatal
Fatal_Exit ==
    /\ Running
    /\ pc = "ret"
    /\ job = "close"
    /\ AfterClose(cur.op) = "exit"
    /\ proc' = [state |-> "exited", code |-> 1, by |-> "os.Exit", msg |-> <<>>]
    /\ UNCHANGED <<cfgVars, now, rec, pc, job, fanVars, writes, closes, histVars, setVars>>

\* panic(fmt.Sprintf(format, args...)) in logger.Panic
Panic_Raise ==
    /\ Running
    /\ pc = "ret"
    /\ job = "close"
    /\ AfterClose(cur.op) = "panic"
    /\ proc' = [state |-> "panicked", code |-> 0, by |-> "logger.Panic",
                msg |-> Sprintf(cur.f, cur.a)]
    /\ UNCHANGED <<cfgVars, now, rec, pc, job, fanVars, writes, closes, histVars, setVars>>

Next ==
    \/ \E l \in Levels : logger_SetLevel(l)
    \/ \E b \in HandlerRefs : logger_SetHandler(b)
    \/ \E s \in Sinks, l \in Levels : BaseHandler_SetLevel(s, l)
    \/ \E s \in Sinks, f \in Formatters : BaseHandler_SetFormatter(s, f)
    \/ \E l \in Levels : MultiHandler_SetLevel(l)
    \/ \E f \in Formatters : MultiHandler_SetFormatter(f)
    \/ \E m \in Methods, f \in Templates, a \in ArgLists : logger_Method(m, f, a)
    \/ \E f \in Templates, a \in ArgLists : logger_Fatal(f, a)
    \/ \E f \in Templates, a \in ArgLists : logger_Panic(f, a)
    \/ logger_Close
    \/ Sink_Invoke
    \/ MultiHandler_Enter
    \/ MultiHandler_Go
    \/ \E t \in Units : Sink_Handle(t)
    \/ \E t \in Units : Sink_Close(t)
    \/ \E t \in Units : Sink_Write(t)
    \/ \E t \in Units : Sink_WritePanic(t)
    \/ \E t \in Units : Sink_Return(t)
    \/ MultiHandler_Wait
    \/ logger_Return
    \/ logger_CloseAfterCritical
    \/ Fatal_Exit
    \/ Panic_Raise

\* the calls and reconfigurations of the application and the steps of the
\* handlers, with the wall clock standing still
Spec == Init /\ [][Next]_vars

\* an output call or a transport Close that never returns: b.w.Write,
\* fmt.Fprint, fn(message) and b.w.Close() block as long as the stream or the
\* transport does
Sink_Stall(t) ==
    /\ Running
    /\ unit[t].st = "run"
    /\ \/ unit[t].pending # <<>>
       \/ job = "close" /\ IsSyslog(SinkOf(t))
    /\ unit' = [unit EXCEPT ![t].st = "blocked"]
    /\ UNCHANGED <<cfgVars, now, rec, pc, job, spawned, wg, writes, closes, proc,
                   histVars, setVars>>

\* the steps of the caller's thread inside a call of the Logger
CallerStep ==
    \/ Sink_Invoke
    \/ MultiHandler_Enter
    \/ MultiHandler_Go
    \/ MultiHandler_Wait
    \/ logger_Return
    \/ logger_CloseAfterCritical
    \/ Fatal_Exit
    \/ Panic_Raise

\* the steps of execution t of a sink's Handle or Close that the sink itself
\* decides
UnitStep(t) ==
    \/ Sink_Handle(t)
    \/ Sink_Close(t)
    \/ Sink_Write(t)
    \/ Sink_Return(t)

Live_Call ==
    /\ ncalls < MaxCalls
    /\ \/ \E m \in Methods, f \in Templates, a \in ArgLists : logger_Method(m, f, a)
       \/ \E f \in Templates, a \in ArgLists : logger_Fatal(f, a)
       \/ \E f \in Templates, a \in ArgLists : logger_Panic(f, a)
       \/ logger_Close

NextLive ==
    \/ Live_Call
    \/ CallerStep
    \/ \E t \in Units : UnitStep(t)
    \/ \E t \in Units : Sink_WritePanic(t)
    \/ \E t \in Units : Sink_Stall(t)

\* calls of the Logger whose sinks may stall, under the Go scheduler: a
\* goroutine that can run does run, so every step of the caller and of a
\* sink's method that stays possible is taken
SpecLive ==
    /\ Init
    /\ [][NextLive]_vars
    /\ WF_vars(CallerStep)
    /\ \A t \in Units : WF_vars(UnitStep(t))

\* ---------------------------------------------------------------- default logger
\* the program before the package is initialized
PackageUnloaded == [phase |-> "load", built |-> 0, DefaultLogger |-> 0]

InitDefault ==
    /\ InitLogger
    /\ lHandler = DefaultHandler
    /\ handlers = <<>>
    /\ installed = lHandler
    /\ pkg = PackageUnloaded

DefaultFrame ==
    UNCHANGED <<lLevel, lHandler, hLevel, hFormatter, handlers, now, rec, pc, job,
                fanVars, writes, closes, proc, histVars, setVars>>

\* the package's variable declarations, run by the Go runtime before any
\* init() and before main: DefaultLogger = NewLogger(procName())
Package_InitVars ==
    /\ pkg.phase = "load"
    /\ pkg' = [phase |-> "init", built |-> pkg.built + 1,
               DefaultLogger |-> pkg.built + 1]
    /\ UNCHANGED free
    /\ DefaultFrame

\* func init(), after which main and the application's threads run
Package_init ==
    /\ pkg.phase = "init"
    /\ pkg' = [pkg EXCEPT !.phase = "main"]
    /\ UNCHANGED free
    /\ DefaultFrame

\* faulty variant: the free function builds a Logger for itself
FreeLogger_New(p) ==
    [pkg |-> [p EXCEPT !.built = @ + 1],
     target |-> p.built + 1]

\* DefaultLogger as a free function reads it: the package variable, which the
\* call leaves as it is
FreeLogger(p) == [pkg |-> p, target |-> p.DefaultLogger]

\* a thread enters the free function fn, which evaluates DefaultLogger
Free_Call(th, fn) ==
    /\ pkg.phase = "main"
    /\ free[th].st = "idle"
    /\ free[th].n < MaxCalls
    /\ pkg' = FreeLogger(pkg).pkg
    /\ free' = [free EXCEPT ![th] = [st |-> "in", fn |-> fn,
                                     target |-> FreeLogger(pkg).target, n |-> @.n]]
    /\ DefaultFrame

\* what calling the method leaves of the program and of the thread:
\* logger.Fatal ends the process, logger.Panic unwinds the thread
ForwardEnds(fn) ==
    CASE fn = "Fatal" -> [phase |-> "exited", st |-> "done"]
      [] fn = "Panic" -> [phase |-> "main", st |-> "unwinding"]
      [] OTHER        -> [phase |-> "main", st |-> "idle"]

\* the free function calls the method of its name on the Logger it read
Free_Forward(th) ==
    /\ pkg.phase = "main"
    /\ free[th].st = "in"
    /\ pkg' = [pkg EXCEPT !.phase = ForwardEnds(free[th].fn).phase]
    /\ free' = [free EXCEPT ![th].st = ForwardEnds(free[th].fn).st, ![th].n = @ + 1]
    /\ DefaultFrame

NextDefault ==
    \/ Package_InitVars
    \/ Package_init
    \/ \E th \in Threads, fn \in FreeFunctions : Free_Call(th, fn)
    \/ \E th \in Threads : Free_Forward(th)

SpecDefault == InitDefault /\ [][NextDefault]_vars

\* logging calls on a Logger with a sink Handler, over all templates and
\* argument lists
InitFormat ==
    /\ Init
    /\ lHandler \in Sinks
    /\ handlers = <<>>

Format_Call(m, f, a) ==
    /\ ncalls < MaxCalls
    /\ logger_Method(m, f, a)

NextFormat ==
    \/ \E m \in FormatMethods, f \in FormatTemplates, a \in FormatArgLists :
          Format_Call(m, f, a)
    \/ Sink_Invoke
    \/ \E t \in Units : Sink_Handle(t)
    \/ \E t \in Units : Sink_Write(t)
    \/ \E t \in Units : Sink_Return(t)
    \/ logger_Return

SpecFormat == InitFormat /\ [][NextFormat]_vars

Clock_Call(m, f, a) ==
    /\ ncalls < MaxCalls
    /\ logger_Method(m, f, a)

\* logging calls, after any choice of formatters, with the wall clock advancing
\* between any two steps
NextClock ==
    \/ Tick
    \/ \E s \in Sinks, f \in Formatters : BaseHandler_SetFormatter(s, f)
    \/ \E m \in Methods, f \in Templates, a \in ArgLists : Clock_Call(m, f, a)
    \/ Sink_Invoke
    \/ MultiHandler_Enter
    \/ MultiHandler_Go
    \/ \E t \in Units : Sink_Handle(t)
    \/ \E t \in Units : Sink_Write(t)
    \/ \E t \in Units : Sink_Return(t)
    \/ MultiHandler_Wait
    \/ logger_Return

SpecClock == Init /\ [][NextClock]_vars

\* ---------------------------------------------------------------- properties
\* output calls sink s has received since the call in progress (or last made) began
OutSince(s) == Len(writes[s]) - cur.w0[s]
Children == {handlers[i] : i \in 1..Len(handlers)}
Slots == 1..Len(handlers)

\* C1: a severity method of level B on a Logger with threshold A builds one
\* Record of level B and calls the Handler's Handle exactly once iff B <= A; when
\* B > A no Record is built and the Handler is not called.
C1_LevelGating ==
    cur.op \in Methods =>
        /\ opEv.built <= 1
        /\ opEv.hcall <= opEv.built
        /\ cur.level > cur.thr => (opEv.built = 0 /\ opEv.hcall = 0 /\ rec = NoRec)
        /\ pc # "idle" => (rec.Level = cur.level /\ rec.id = ncalls /\ opEv.built = 1)
        /\ opEv.hcall = 1 => delivered[Len(delivered)].id = ncalls
        /\ pc = "idle" => (opEv.hcall = 1 <=> cur.level <= cur.thr)

C1_Witness ==
    /\ pc = "idle"
    /\ cur.op = "Warning"
    /\ cur.thr = WARNING
    /\ opEv.hcall = 1

\* C2: with a sink Handler of threshold H behind a Logger of threshold A, a call
\* of level B produces output at the sink iff B <= A and B <= H; when B <= A and
\* B > H the Record reaches FilterAndFormat, which yields the empty message, and
\* the sink makes no output call.
C2_DoubleGating ==
    (cur.op \in Methods /\ cur.h \in Sinks) =>
        LET s == cur.h
            both == cur.level <= cur.thr /\ cur.level <= cur.hl[s]
        IN /\ ~both => OutSince(s) = 0
           /\ \A o \in Sinks \ {s} : OutSince(o) = 0
           /\ pc = "idle" => (OutSince(s) > 0 <=> both)
           /\ (pc = "single" /\ unit[0].st = "run" /\ cur.level > cur.hl[s])
                  => unit[0].pending = <<>>
           /\ (pc = "idle" /\ cur.level <= cur.thr /\ cur.level > cur.hl[s])
                  => (opEv.hcall = 1 /\ opEv.hret = 1)

C2_Witness ==
    /\ pc = "idle"
    /\ cur.op = "Notice"
    /\ cur.thr = INFO
    /\ cur.h \in Sinks
    /\ cur.hl[cur.h] = WARNING
    /\ opEv.hret = 1
    /\ OutSince(cur.h) = 0

\* C3: MultiHandler.Handle calls Handle on every child exactly once, each on a
\* goroutine of its own and with the one Record, and returns only when every
\* child's Handle has returned.
C3_JoinBarrier ==
    (lHandler = Multi /\ job = "handle" /\ pc \in {"fanout", "ret"}) =>
        /\ unit[0].st = "none"
        /\ \A t \in 1..MaxChildren :
              /\ unit[t].n <= 1
              /\ t > Len(handlers) => unit[t].st = "none"
        /\ \A s \in Sinks : \A k \in (cur.w0[s] + 1)..Len(writes[s]) :
              writes[s][k].id = rec.id
        /\ pc = "ret" => \A i \in Slots : unit[i].st = "done" /\ unit[i].n = 1

C3_Witness ==
    /\ lHandler = Multi
    /\ job = "handle"
    /\ pc = "ret"
    /\ handlers = <<1, 2>>
    /\ OutSince(1) > 0
    /\ OutSince(2) > 0

\* C4: a child of a MultiHandler that raises during its Handle does not stop the
\* process: the fault stays with that child, the other children run on and
\* MultiHandler.Handle returns.
C4_FaultIsolation ==
    \A t \in 1..MaxChildren : unit[t].st = "panicked" => proc.state = "running"

\* C5: after SetLevel(L) / SetFormatter(F) on a MultiHandler every child has
\* threshold L / formatter F, whatever it had before.
C5_Cascade ==
    lastSet.on = "multi" =>
        \A i \in Slots :
            IF lastSet.field = "level"
            THEN hLevel[handlers[i]] = lastSet.level
            ELSE hFormatter[handlers[i]] = lastSet.formatter

C5_Witness ==
    /\ lastSet.on = "multi"
    /\ lastSet.field = "level"
    /\ lastSet.level = WARNING
    /\ lastSet.overwrote
    /\ handlers = <<1, 2>>
    /\ hFormatter[2] = "custom"

\* C6: in Fatal and Panic the CRITICAL Record is handed to the Handler and that
\* Handle returns, then Close is called and returns, and only then the process
\* exits with status 1 (Fatal) or the panic with the formatted message is raised
\* (Panic); neither returns to its caller.
C6_FatalPanicOrder ==
    /\ proc.by \in {"os.Exit", "logger.Panic"} => cur.op \in {"Fatal", "Panic"}
    /\ cur.op \in {"Fatal", "Panic"} =>
        /\ pc # "idle"
        /\ opEv.hcall <= 1
        /\ opEv.ccall <= 1
        /\ opEv.hcall = 1 => rec.Level = CRITICAL
        /\ opEv.ccall > 0 => (opEv.hcall = 1 /\ opEv.hret = 1)
        /\ proc.by \in {"os.Exit", "logger.Panic"} =>
              (opEv.hret = 1 /\ opEv.ccall = 1 /\ opEv.cret = 1)
        /\ proc.by = "os.Exit" =>
              (cur.op = "Fatal" /\ proc.state = "exited" /\ proc.code = 1)
        /\ proc.by = "logger.Panic" =>
              (cur.op = "Panic" /\ proc.state = "panicked"
               /\ proc.msg = Sprintf(cur.f, cur.a))

C6_Witness ==
    /\ proc.by = "os.Exit"
    /\ lHandler = 2
    /\ OutSince(2) > 0
    /\ closes[2] = cur.c0[2] + 1

\* C7: when a Record of level B goes through a MultiHandler, child i produces
\* output iff B <= Hi, whatever the other children's thresholds are.
C7_PerSinkIndependence ==
    (cur.op \in Methods /\ cur.h = Multi) =>
        /\ \A s \in Sinks :
              (s \notin Children \/ cur.level > cur.thr \/ cur.level > cur.hl[s])
                  => OutSince(s) = 0
        /\ (pc = "idle" /\ cur.level <= cur.thr) =>
              \A i \in Slots :
                  OutSince(handlers[i]) > 0 <=> cur.level <= cur.hl[handlers[i]]

C7_Witness ==
    /\ pc = "idle"
    /\ cur.op = "Info"
    /\ cur.h = Multi
    /\ handlers = <<1, 2>>
    /\ cur.hl[1] = INFO
    /\ cur.hl[2] = WARNING
    /\ OutSince(1) > 0
    /\ OutSince(2) = 0

\* C8: the Records of sequential calls reach the Handler in call order: the
\* Handle call of one Record has returned before the next one starts, and it has
\* returned when the logging call returns.
C8_DeliveryOrder ==
    /\ \A i \in 1..(Len(delivered) - 1) :
          delivered[i].done /\ delivered[i].id < delivered[i + 1].id
    /\ pc = "idle" => \A i \in 1..Len(delivered) : delivered[i].done
    /\ (pc \in {"single", "fanout"} /\ job = "handle") =>
          (delivered[Len(delivered)].id = rec.id /\ ~delivered[Len(delivered)].done)
    /\ \A s \in Sinks : \A k \in 1..(Len(writes[s]) - 1) :
          writes[s][k].id <= writes[s][k + 1].id

C8_Witness ==
    /\ pc = "idle"
    /\ Len(delivered) = 2
    /\ \E s \in Sinks : /\ Len(writes[s]) >= 2
                        /\ writes[s][1].id = 1
                        /\ writes[s][Len(writes[s])].id = 2

\* C9: MultiHandler.Close calls Close on every child exactly once, each on a
\* goroutine of its own, and returns only when every child's Close has returned.
C9_MultiClose ==
    (lHandler = Multi /\ job = "close" /\ pc \in {"fanout", "ret"}) =>
        /\ unit[0].st = "none"
        /\ \A t \in 1..MaxChildren :
              /\ unit[t].n <= 1
              /\ t > Len(handlers) => unit[t].st = "none"
        /\ pc = "ret" =>
              /\ \A i \in Slots : unit[i].st = "done" /\ unit[i].n = 1
              /\ \A s \in Sinks :
                    closes[s] - cur.c0[s] =
                        IF IsSyslog(s) THEN Cardinality({i \in Slots : handlers[i] = s})
                        ELSE 0

C9_Witness ==
    /\ cur.op = "Close"
    /\ lHandler = Multi
    /\ job = "close"
    /\ pc = "ret"
    /\ handlers = <<1, 2>>
    /\ closes[2] = cur.c0[2] + 1

\* what a Handle that began in execution t has sent or is about to send
Produced(t) ==
    \/ unit[t].pending # <<>>
    \/ \E k \in (cur.w0[SinkOf(t)] + 1)..Len(writes[SinkOf(t)]) :
          writes[SinkOf(t)][k].id = rec.id

HandleUsesCurrent ==
    /\ (lastSet.on = "base" /\ lastSet.field = "level")
          => hLevel[lastSet.sink] = lastSet.level
    /\ (lastSet.on = "base" /\ lastSet.field = "formatter")
          => hFormatter[lastSet.sink] = lastSet.formatter
    /\ job = "handle" =>
          \A t \in Units : unit[t].st \in {"run", "done"} =>
              LET s == SinkOf(t)
              IN /\ Produced(t) <=> rec.Level <= hLevel[s]
                 /\ \A k \in (cur.w0[s] + 1)..Len(writes[s]) :
                       writes[s][k].text # <<>> =>
                           writes[s][k].text = Format(hFormatter[s], rec)

\* C10: every Handle call filters against the threshold and renders with the
\* formatter most recently set on the handler, and SetLevel / SetFormatter leave
\* the output already produced as it is.
C10_ReconfigurationAffectsLaterHandles ==
    /\ []HandleUsesCurrent
    /\ [][nsets' # nsets => (writes' = writes /\ closes' = closes)]_vars

C10_Witness ==
    /\ pc = "ret"
    /\ job = "handle"
    /\ lHandler = 1
    /\ lastSet.on = "base"
    /\ lastSet.sink = 1
    /\ lastSet.field = "level"
    /\ lastSet.level = WARNING
    /\ rec.Level = NOTICE
    /\ unit[0].n = 1
    /\ OutSince(1) = 0

\* the sinks a Handler reference hands a Record to
Reach(h) == IF h = Multi THEN Children ELSE {h}

\* C11: a Logger has one Handler at a time: a Record that passes the Logger's
\* gate is handed once, to the Handler last installed (by NewLogger, then by
\* SetHandler); no other Handler gets a Record or a Close from the Logger, the
\* one installed before included.
C11_SingleHandler ==
    /\ installed \in HandlerRefs
    /\ (lastSet.on = "logger" /\ lastSet.field = "handler") => installed = lastSet.sink
    /\ pc # "idle" => cur.h = installed
    /\ opEv.hcall <= 1
    /\ opEv.ccall <= 1
    /\ (job = "handle" /\ pc \in {"single", "fanout", "ret"} /\ opEv.built = 1)
          => (opEv.hcall = 1 /\ delivered[Len(delivered)].id = rec.id)
    /\ \A t \in Units :
          unit[t].st # "none" =>
              /\ IF installed = Multi THEN t \in Slots ELSE t = 0
              /\ SinkOf(t) \in Reach(installed)
    /\ \A s \in Sinks :
          s \notin Reach(cur.h) => (OutSince(s) = 0 /\ closes[s] = cur.c0[s])

C11_Witness ==
    /\ pc = "ret"
    /\ job = "handle"
    /\ lastSet.on = "logger"
    /\ lastSet.field = "handler"
    /\ lastSet.overwrote
    /\ installed = 2
    /\ opEv.hcall = 1
    /\ OutSince(2) > 0
    /\ OutSince(1) = 0

\* C12: WriterHandler.Handle makes exactly one write call to its stream for a
\* Record that passes FilterAndFormat, carrying the rendered text with the colour
\* prefix and the reset suffix around it when the handler is colorized, and no
\* write call for a suppressed Record.
C12_OneWrite ==
    job = "handle" =>
        \A t \in Units :
            (unit[t].st \in {"run", "done"} /\ ~IsSyslog(SinkOf(t))) =>
                OutSince(SinkOf(t)) + Len(unit[t].pending) =
                    IF HandlerGate(hLevel[SinkOf(t)], rec.Level) THEN 1 ELSE 0

\* the newlines a sequence of tokens ends with
RECURSIVE TrailingNL(_)
TrailingNL(f) ==
    IF f = <<>> \/ f[Len(f)] # "\n" THEN 0
    ELSE 1 + TrailingNL(SubSeq(f, 1, Len(f) - 1))

\* the rendered messages the call in progress (or last made) has had written
Rendered ==
    UNION {{writes[s][k].text : k \in (cur.w0[s] + 1)..Len(writes[s])} : s \in Sinks}
        \ {<<>>}

\* the Record of a call holds the call's template with one newline appended
\* if it ended in none, and as it is if it ended in one
TemplateNormalized ==
    (cur.op \in Methods /\ pc # "idle") =>
        /\ TrailingNL(rec.Format) = (IF TrailingNL(cur.f) = 0 THEN 1 ELSE TrailingNL(cur.f))
        /\ Len(rec.Format) = (IF TrailingNL(cur.f) = 0 THEN Len(cur.f) + 1 ELSE Len(cur.f))
        /\ SubSeq(rec.Format, 1, Len(cur.f)) = cur.f

\* the verbs of the template are all %d and no more arguments are passed than
\* it has verbs
PlainCall ==
    /\ \A i \in 1..Len(cur.f) : cur.f[i] # "%"
    /\ Len(cur.a) <= Cardinality({i \in 1..Len(cur.f) : cur.f[i] = "%d"})

\* C13 as stated: every template that passes the Logger's gate is rendered with
\* the newlines it ended with, and with exactly one if it ended with none; the
\* Record holds the template with that one newline appended, or unchanged.
C13_RenderedNewline ==
    /\ TemplateNormalized
    /\ \A text \in Rendered :
          TrailingNL(text) = (IF TrailingNL(cur.f) = 0 THEN 1 ELSE TrailingNL(cur.f))

\* C13 amended: the Record holds the template with one newline appended if it
\* ended in none and unchanged if it ended in one; the rendered message ends
\* with these newlines when the template's verbs are well-formed and the call
\* passes no surplus argument.
C13_NewlineNormalization ==
    /\ TemplateNormalized
    /\ PlainCall =>
          \A text \in Rendered :
              TrailingNL(text) = (IF TrailingNL(cur.f) = 0 THEN 1 ELSE TrailingNL(cur.f))

C13_Witness ==
    /\ pc = "idle"
    /\ cur.op = "Info"
    /\ cur.f = <<"m", "%d">>
    /\ cur.a = <<"7">>
    /\ \E text \in Rendered : TrailingNL(text) = 1

\* a child's Handle or Close that will not return
ChildStuck == \E t \in 1..MaxChildren : unit[t].st \in {"blocked", "panicked"}

\* C14: MultiHandler.Handle and MultiHandler.Close return once every child's
\* Handle (Close) has returned, at once when there are no children, and never
\* return while a child does not return.
C14_FanOutTermination ==
    /\ (pc = "fanout") ~> (pc = "ret" \/ ChildStuck)
    /\ []((pc = "fanout" /\ handlers = <<>>)
            => (spawned = SpawnCount(handlers) /\ WgWaitReturns(wg)))
    /\ []((pc = "fanout" /\ ChildStuck) => [](pc = "fanout"))

C14_Witness ==
    /\ cur.op = "Fatal"
    /\ lHandler = Multi
    /\ handlers = <<1, 2>>
    /\ job = "close"
    /\ pc = "ret"
    /\ opEv.hret = 1
    /\ \A i \in Slots : unit[i].st = "done"

\* the output calls of the call in progress (or last made) that carry a message
Messages(s) ==
    {e \in {writes[s][k] : k \in (cur.w0[s] + 1)..Len(writes[s])} : e.text # <<>>}

\* the Record of the call in progress is the one logger.log built
RecordAsBuilt ==
    (cur.op \in Methods /\ pc # "idle") =>
        /\ rec.id = ncalls
        /\ rec.Time = cur.t
        /\ rec.Level = cur.level
        /\ rec.Args = cur.a
        /\ rec.LoggerName = LoggerName
        /\ SubSeq(rec.Format, 1, Len(cur.f)) = cur.f

\* the messages of one Record: the same text at any two sinks with the same
\* formatter, stamped with the time of the call by the default formatter
SameRendering ==
    pc # "idle" =>
        /\ \A s1 \in Sinks, s2 \in Sinks :
              hFormatter[s1] = hFormatter[s2] =>
                  \A e1 \in Messages(s1), e2 \in Messages(s2) : e1.text = e2.text
        /\ \A s \in Sinks :
              hFormatter[s] = DefaultFormatter =>
                  \A e \in Messages(s) : e.text[1] = TimeStr(cur.t)

\* C15: formatting one Record again gives the same string, with the time the
\* Record was built at and not the time of formatting, and the Record is not
\* changed from its construction to the return of the call.
C15_FormatIdempotent ==
    /\ [](RecordAsBuilt /\ SameRendering)
    /\ [][(pc # "idle" /\ pc' # "idle") => rec' = rec]_vars

C15_Witness ==
    /\ pc = "ret"
    /\ lHandler = Multi
    /\ handlers = <<1, 2>>
    /\ rec.Time = 0
    /\ now = 2
    /\ hFormatter[1] = DefaultFormatter
    /\ hFormatter[2] = DefaultFormatter
    /\ Len(writes[1]) >= 2
    /\ writes[1][Len(writes[1]) - 1].text # <<>>
    /\ writes[1][Len(writes[1]) - 1].text = writes[2][Len(writes[2])].text

\* a free function has been called
FreeAccessed == \E th \in Threads : free[th].st # "idle" \/ free[th].n > 0

\* the default Logger is built at most once, and every free function that has
\* read DefaultLogger has that one Logger
OneDefaultLogger ==
    /\ pkg.built <= 1
    /\ pkg.DefaultLogger = pkg.built
    /\ \A th \in Threads :
          (free[th].st # "idle" \/ free[th].n > 0) =>
              (free[th].target = 1 /\ free[th].target = pkg.DefaultLogger
               /\ free[th].fn \in FreeFunctions)

\* C16 as stated: the default Logger is built lazily, on the first call of a
\* free function, at most once also when several threads make their first call
\* at the same time, and the eight free functions forward to that one Logger.
C16_LazySingleInit ==
    /\ OneDefaultLogger
    /\ pkg.built > 0 => FreeAccessed

\* C16 amended: the default Logger is built exactly once, when the package is
\* initialized and before any free function can be called, whether or not one
\* ever is; the eight free functions, from any number of threads, forward to
\* that one Logger and build none.
C16_SingleInit ==
    /\ OneDefaultLogger
    /\ pkg.phase = "load" => (pkg.built = 0 /\ ~FreeAccessed)
    /\ pkg.phase # "load" => pkg.built = 1
    /\ FreeAccessed => pkg.phase \in {"main", "exited"}

C16_Witness ==
    /\ pkg.built = 1
    /\ free[1].st = "in"
    /\ free[2].st = "in"
    /\ free[1].n = 0
    /\ free[2].n = 0
    /\ free[1].fn = "Info"
    /\ free[2].fn = "Fatal"
    /\ free[1].target = free[2].target

\* C17: through a MultiHandler a child handles a Record only while the call
\* that built it is waiting in MultiHandler.Handle, so no child starts on the
\* next Record before every child has finished the one before, and every child
\* gets the Records once each and in call order.
C17_PerChildOrder ==
    /\ \A t \in 1..MaxChildren :
          unit[t].st \in {"ready", "run"} =>
              /\ pc = "fanout"
              /\ job = "handle" => ~delivered[Len(delivered)].done
    /\ (job = "handle" /\ pc = "fanout") =>
          \A s \in Sinks : \A k \in 1..Len(writes[s]) :
              IF k <= cur.w0[s] THEN writes[s][k].id < rec.id
              ELSE writes[s][k].id = rec.id
    /\ \A s \in Sinks : \A j \in 1..Len(writes[s]), k \in 1..Len(writes[s]) :
          j < k =>
              /\ writes[s][j].id <= writes[s][k].id
              /\ (writes[s][j].text # <<>> /\ writes[s][k].text # <<>>)
                    => writes[s][j].id < writes[s][k].id

C17_Witness ==
    /\ pc = "idle"
    /\ nsets = 0
    /\ lHandler = Multi
    /\ handlers = <<1, 2>>
    /\ Len(delivered) = 2
    /\ Len(writes[2]) = 2
    /\ writes[2][1].id = 1
    /\ writes[2][2].id = 2
    /\ Len(writes[1]) = 6
    /\ writes[1][3].id = 1
    /\ writes[1][4].id = 2

\* the output calls a child's Handle of the Record makes
Expected(s) == Len(SinkParts(s, cur.hl[s], hFormatter[s], rec))

\* C18: in Fatal and Panic on a Logger with a MultiHandler, no child's Close
\* starts before every child's Handle of the CRITICAL Record has returned, every
\* child's Close is called once, and the exit or the panic comes after every
\* child's Close has returned.
C18_ShutdownOrder ==
    (cur.op \in {"Fatal", "Panic"} /\ cur.h = Multi) =>
        /\ job = "close" =>
              /\ opEv.hcall = 1
              /\ opEv.hret = 1
              /\ rec.Level = CRITICAL
              /\ \A i \in Slots : OutSince(handlers[i]) = Expected(handlers[i])
              /\ \A i \in Slots : OutSince(handlers[i]) > 0
              /\ \A t \in Units : unit[t].n <= 1
              /\ \A s \in Sinks : closes[s] - cur.c0[s] <= 1
        /\ job = "handle" => \A s \in Sinks : closes[s] = cur.c0[s]
        /\ proc.by \in {"os.Exit", "logger.Panic"} =>
              /\ job = "close"
              /\ pc = "ret"
              /\ opEv.cret = 1
              /\ \A i \in Slots : unit[i].st = "done" /\ unit[i].n = 1
              /\ \A i \in Slots :
                    closes[handlers[i]] - cur.c0[handlers[i]] =
                        IF IsSyslog(handlers[i]) THEN 1 ELSE 0

C18_Witness ==
    /\ proc.by = "logger.Panic"
    /\ cur.h = Multi
    /\ handlers = <<1, 2>>
    /\ OutSince(1) = 3
    /\ OutSince(2) = 1
    /\ closes[2] = cur.c0[2] + 1
    /\ unit[1].st = "done"
    /\ unit[2].st = "done"

====
